---- MODULE Spec2Model ----
(***************************************************************************)
(* Model of the Roborock entity adapters: the entity base classes          *)
(* (entity.py), the sensor platform (sensor.py) and the B01/Q7 vacuum      *)
(* entity (vacuum.py).  The host platform's coordinator and the device     *)
(* library are the environment: coordinator data is drawn from small       *)
(* sample sets, device calls succeed or raise nondeterministically.        *)
(***************************************************************************)
EXTENDS Integers, Sequences, FiniteSets, TLC

(***************************************************************************)
(* Python values.  Every value is a tagged record so that values of        *)
(* different Python types are comparable (and different).                  *)
(***************************************************************************)
None == [none |-> TRUE]
IntV(n) == [int |-> n]
StrV(s) == [str |-> s]
EnumV(cls, name, code) == [enum |-> cls, name |-> name, code |-> code]
Obj(attrs) == [obj |-> attrs]
Dict(items) == [dict |-> items]

IsObj(v) == "obj" \in DOMAIN v
IsEnum(v) == "enum" \in DOMAIN v

\* Outcome of evaluating a Python expression or call: a value or an exception.
Ret(v) == [kind |-> "return", value |-> v]
Raise(e) == [kind |-> "raise", exc |-> e]
Raised(o) == o.kind = "raise"

\* obj.name: AttributeError when the object has no such attribute.
Attr(v, name) ==
    IF IsObj(v) /\ name \in DOMAIN v.obj THEN Ret(v.obj[name])
    ELSE IF IsEnum(v) /\ name = "name" THEN Ret(StrV(v.name))
    ELSE Raise("AttributeError")

\* getattr(obj, name, None): the default replaces a missing attribute.
GetAttr(v, name) ==
    IF IsObj(v) /\ name \in DOMAIN v.obj THEN v.obj[name] ELSE None

\* mapping[key]: KeyError when the key is missing, TypeError on a non-mapping.
GetItem(v, key) ==
    IF "dict" \in DOMAIN v
    THEN IF key \in DOMAIN v.dict THEN Ret(v.dict[key]) ELSE Raise("KeyError")
    ELSE Raise("TypeError")

(***************************************************************************)
(* The library enum SCWindMapping (members in definition order) and the    *)
(* enum operations the vacuum entity uses: iteration, lookup by name.      *)
(***************************************************************************)
SCWindMapping ==
    << EnumV("SCWindMapping", "SILENCE", 1),
       EnumV("SCWindMapping", "STANDARD", 2),
       EnumV("SCWindMapping", "STRONG", 3),
       EnumV("SCWindMapping", "SUPER_STRONG", 4) >>

SCWindMembers == { SCWindMapping[i] : i \in 1..Len(SCWindMapping) }

\* isinstance(wind, SCWindMapping)
IsSCWind(v) == v \in SCWindMembers

\* SCWindMapping[name]: the member of that name, KeyError when there is none.
SCWindByName(name) ==
    IF \E m \in SCWindMembers : m.name = name
    THEN Ret(CHOOSE m \in SCWindMembers : m.name = name)
    ELSE Raise("KeyError")

(***************************************************************************)
(* Sensor description tables.                                              *)
(***************************************************************************)
SENSOR_DESCRIPTIONS ==
    << [key |-> "battery", is_dock_entity |-> FALSE],
       [key |-> "cleaning_time", is_dock_entity |-> FALSE],
       [key |-> "dock_error", is_dock_entity |-> TRUE] >>

A01_SENSOR_DESCRIPTIONS ==
    << [key |-> "status", data_protocol |-> "STATUS"],
       [key |-> "battery", data_protocol |-> "POWER"] >>

Q7_B01_SENSOR_DESCRIPTIONS ==
    << [key |-> "q7_status", attr |-> "status_name"],
       [key |-> "main_brush_time_left", attr |-> "main_brush_time_left"],
       [key |-> "side_brush_time_left", attr |-> "side_brush_time_left"],
       [key |-> "filter_time_left", attr |-> "hypa_time_left"],
       [key |-> "sensor_time_left", attr |-> "main_sensor_time_left"],
       [key |-> "mop_life_time_left", attr |-> "mop_life_time_left"],
       [key |-> "cleaning_time", attr |-> "cleaning_time"],
       [key |-> "total_cleaning_time", attr |-> "real_clean_time"],
       [key |-> "cleaning_area", attr |-> "cleaning_area"],
       [key |-> "total_cleaning_area", attr |-> "total_cleaning_area"] >>

\* A slip in _dock_error_value_fn: the dock type is not tested.
DockErrorIgnoresDockType(state) ==
    LET st == Attr(state, "status") IN
    IF Raised(st) THEN st
    ELSE LET des == Attr(st.value, "dock_error_status") IN
         IF Raised(des) THEN des
         ELSE IF des.value = None THEN Ret(None)
         ELSE Attr(des.value, "name")

\* _dock_error_value_fn(state)
DockErrorValueFn(state) ==
    LET st == Attr(state, "status") IN
    IF Raised(st) THEN st
    ELSE LET des == Attr(st.value, "dock_error_status") IN
         IF Raised(des) THEN des
         ELSE IF des.value = None THEN Ret(None)
         ELSE LET dt == Attr(st.value, "dock_type") IN
              IF Raised(dt) THEN dt
              ELSE IF dt.value # IntV(0) THEN Attr(des.value, "name")
              ELSE Ret(None)

\* lambda data: data.status.<field>
StatusFieldValueFn(state, field) ==
    LET st == Attr(state, "status") IN
    IF Raised(st) THEN st ELSE Attr(st.value, field)

\* description.value_fn(data) of a V1 description
V1ValueFn(description, state) ==
    CASE description.key = "battery" -> StatusFieldValueFn(state, "battery")
      [] description.key = "cleaning_time" -> StatusFieldValueFn(state, "clean_time")
      [] description.key = "dock_error" -> DockErrorValueFn(state)

\* description.value_fn(data) of a B01 description
B01ValueFn(description, state) == Ret(GetAttr(state, description.attr))

(***************************************************************************)
(* Entity constructors.                                                    *)
(***************************************************************************)
\* coordinator.device_info / coordinator.dock_device_info
DeviceInfo(coordinator) ==
    [name |-> coordinator.name, identifiers |-> coordinator.duid_slug]
DockDeviceInfo(coordinator) ==
    [name |-> coordinator.name \o " Dock",
     identifiers |-> coordinator.duid_slug \o "_dock"]

\* RoborockSensorEntity(coordinator, description)
RoborockSensorEntity(coordinator, description) ==
    [cls |-> "RoborockSensorEntity",
     entity_description |-> description,
     coordinator |-> coordinator,
     unique_id |-> description.key \o "_" \o coordinator.duid_slug,
     device_info |-> IF ~description.is_dock_entity
                     THEN DeviceInfo(coordinator)
                     ELSE DockDeviceInfo(coordinator)]

\* RoborockSensorEntityA01(coordinator, description)
RoborockSensorEntityA01(coordinator, description) ==
    [cls |-> "RoborockSensorEntityA01",
     entity_description |-> description,
     coordinator |-> coordinator,
     unique_id |-> description.key \o "_" \o coordinator.duid_slug,
     device_info |-> DeviceInfo(coordinator)]

\* RoborockSensorEntityB01(coordinator, description)
RoborockSensorEntityB01(coordinator, description) ==
    [cls |-> "RoborockSensorEntityB01",
     entity_description |-> description,
     coordinator |-> coordinator,
     unique_id |-> description.key \o "_" \o coordinator.duid_slug,
     device_info |-> DeviceInfo(coordinator)]

\* RoborockVacuum(coordinator)
RoborockVacuum(coordinator) ==
    [cls |-> "RoborockVacuum",
     coordinator |-> coordinator,
     unique_id |-> DeviceInfo(coordinator).name,
     device_info |-> DeviceInfo(coordinator),
     available |-> TRUE]

(***************************************************************************)
(* Environment: the devices of a config entry and the data their           *)
(* coordinators can hold.                                                  *)
(***************************************************************************)
Coordinator(gen, slug, name, protocols) ==
    [gen |-> gen, duid_slug |-> slug, name |-> name,
     request_protocols |-> protocols]

V1a == Coordinator("v1", "s7a", "S7", <<>>)
A1 == Coordinator("a01", "dya", "Dyad", <<"STATUS", "POWER">>)
A1p == Coordinator("a01", "dya", "Dyad", <<"POWER">>)
B1 == Coordinator("b01", "q7a", "Q7", <<>>)
B2 == Coordinator("b01", "q7b", "Q7", <<>>)
B1k == Coordinator("b01", "q7a", "q7_status_q7a", <<>>)

RuntimeData(v1, a01, b01) == [v1 |-> v1, a01 |-> a01, b01 |-> b01]

\* The device populations explored: one device of each generation, two B01
\* devices with the same display name, a B01 device whose display name is
\* the unique id of one of its own sensors, and a mixed population.
Configs ==
    { RuntimeData(<<V1a>>, <<>>, <<>>),
      RuntimeData(<<>>, <<A1>>, <<>>),
      RuntimeData(<<>>, <<A1p>>, <<>>),
      RuntimeData(<<>>, <<>>, <<B1>>),
      RuntimeData(<<>>, <<>>, <<B1k>>),
      RuntimeData(<<>>, <<>>, <<B1, B2>>),
      RuntimeData(<<V1a>>, <<A1>>, <<B1>>) }

MultiSamples == 3

Range(s) == { s[i] : i \in 1..Len(s) }
AllCoordinators(rd) == Range(rd.v1) \cup Range(rd.a01) \cup Range(rd.b01)

Absent == [absent |-> TRUE]
Field(name, v) == IF v = Absent THEN <<>> ELSE name :> v

DockErrorOk == EnumV("RoborockDockErrorCode", "ok", 0)
DockErrorFull == EnumV("RoborockDockErrorCode", "water_empty", 38)

V1Status(battery, clean_time, dock_error_status, dock_type) ==
    Obj(Field("battery", battery) @@ Field("clean_time", clean_time)
        @@ Field("dock_error_status", dock_error_status)
        @@ Field("dock_type", dock_type))

V1Samples ==
    << Obj(Field("status", V1Status(IntV(80), IntV(120), DockErrorOk, IntV(3)))),
       Obj(Field("status", V1Status(None, IntV(120), None, IntV(3)))),
       Obj(Field("status", None)),
       Obj(Field("status", V1Status(IntV(80), None, DockErrorFull, IntV(0)))),
       Obj(Field("status", V1Status(IntV(15), IntV(120), IntV(99), IntV(3)))) >>

A01Samples ==
    << Dict(Field("STATUS", StrV("idle")) @@ Field("POWER", IntV(80))),
       Dict(Field("STATUS", StrV("idle")) @@ Field("POWER", None)),
       Dict(<<>>),
       Dict(Field("POWER", IntV(80))) >>

KnownStatusNames ==
    << "cleaning", "sweep_moping", "sweep_moping_2", "moping", "sweeping",
       "docked", "charging", "mop_cleaning", "mop_airdrying",
       "returning", "docking", "error", "paused" >>

StatusChoices ==
    [i \in 1..Len(KnownStatusNames) |-> StrV(KnownStatusNames[i])]
    \o << StrV("washing"), None >>

WindChoices ==
    << Absent, None >> \o SCWindMapping \o << IntV(2), StrV("STANDARD") >>

ConsumableAttrs ==
    << "main_brush_time_left", "side_brush_time_left", "hypa_time_left",
       "main_sensor_time_left", "mop_life_time_left", "cleaning_time",
       "real_clean_time", "cleaning_area", "total_cleaning_area" >>

\* The shapes of the consumable/statistics attributes: all absent, all None,
\* all present, and a mix (odd ones present, of the rest every other None).
ShapeValue(shape, j) ==
    CASE shape = 1 -> Absent
      [] shape = 2 -> None
      [] shape = 3 -> IntV(j * 10)
      [] shape = 4 -> IF j % 2 = 1 THEN IntV(j * 10)
                      ELSE IF j % 4 = 0 THEN None ELSE Absent

RECURSIVE ShapeAttrs(_, _)
ShapeAttrs(shape, j) ==
    IF j = 0 THEN <<>>
    ELSE Field(ConsumableAttrs[j], ShapeValue(shape, j)) @@ ShapeAttrs(shape, j - 1)

B01Sample(i) ==
    Obj(Field("status_name", StatusChoices[i])
        @@ Field("wind", WindChoices[(i % Len(WindChoices)) + 1])
        @@ ShapeAttrs((i % 4) + 1, Len(ConsumableAttrs)))

B01Samples ==
    << B01Sample(2), None, B01Sample(3), Obj(<<>>), B01Sample(1) >>
    \o [k \in 1..(Len(StatusChoices) - 3) |-> B01Sample(k + 3)]

GenSamples(gen) ==
    CASE gen = "v1" -> V1Samples
      [] gen = "a01" -> A01Samples
      [] gen = "b01" -> B01Samples

\* A single device ranges over all samples of its generation; in a population
\* of several devices each ranges over the first MultiSamples of them.
SamplesOf(rd, coordinator) ==
    LET all == GenSamples(coordinator.gen)
        n == IF Cardinality(AllCoordinators(rd)) > 1 /\ MultiSamples < Len(all)
             THEN MultiSamples ELSE Len(all)
    IN  { all[i] : i \in 1..n }

Slugs(rd) == { c.duid_slug : c \in AllCoordinators(rd) }
CoordinatorOf(rd, slug) == CHOOSE c \in AllCoordinators(rd) : c.duid_slug = slug

\* All assignments of a sample to every coordinator of the population.
DataStates(rd) ==
    { f \in [Slugs(rd) -> Range(V1Samples) \cup Range(A01Samples) \cup Range(B01Samples)] :
        \A s \in Slugs(rd) : f[s] \in SamplesOf(rd, CoordinatorOf(rd, s)) }

(***************************************************************************)
(* State.                                                                  *)
(***************************************************************************)
VARIABLES
    runtime_data,    \* config_entry.runtime_data: the coordinators per generation
    data,            \* coordinator.data, by duid_slug
    sensorSetup,     \* sensor.async_setup_entry: "pending", "done" or "failed"
    sensorEntities,  \* the list passed to async_add_entities by the sensor platform
    vacuumSetup,     \* vacuum.async_setup_entry: "pending" or "done"
    vacuumEntities,  \* the list passed to async_add_entities by the vacuum platform
    call             \* the entity operation the host invoked last

vars == << runtime_data, data, sensorSetup, sensorEntities,
           vacuumSetup, vacuumEntities, call >>

NoCall ==
    [op |-> "none", self |-> None, arg |-> None, pc |-> "done", log |-> <<>>,
     device |-> [kind |-> "pending"], outcome |-> [kind |-> "pending"]]

Init ==
    /\ runtime_data \in Configs
    /\ data \in DataStates(runtime_data)
    /\ sensorSetup = "pending"
    /\ sensorEntities = <<>>
    /\ vacuumSetup = "pending"
    /\ vacuumEntities = <<>>
    /\ call = NoCall

Idle == call.pc = "done"

(***************************************************************************)
(* sensor.async_setup_entry                                                *)
(***************************************************************************)
RECURSIVE Flatten(_)
Flatten(ss) == IF ss = <<>> THEN <<>> ELSE Head(ss) \o Flatten(Tail(ss))

\* The V1 loop: one entity per description whose value is not None.
V1Include(coordinator, description) ==
    V1ValueFn(description, data[coordinator.duid_slug]) # Ret(None)

\* The A01 loop: one entity per description whose protocol is requested.
A01Include(coordinator, description) ==
    description.data_protocol \in Range(coordinator.request_protocols)

\* A slip in the B01 loop: the None test left out.
B01IncludeAlways(coordinator, description) == TRUE

\* The B01 loop: one entity per description whose value is not None.
B01Include(coordinator, description) ==
    B01ValueFn(description, data[coordinator.duid_slug]) # Ret(None)

V1SensorEntities ==
    Flatten([i \in 1..Len(runtime_data.v1) |->
      Flatten([j \in 1..Len(SENSOR_DESCRIPTIONS) |->
        IF V1Include(runtime_data.v1[i], SENSOR_DESCRIPTIONS[j])
        THEN << RoborockSensorEntity(runtime_data.v1[i], SENSOR_DESCRIPTIONS[j]) >>
        ELSE << >>])])

A01SensorEntities ==
    Flatten([i \in 1..Len(runtime_data.a01) |->
      Flatten([j \in 1..Len(A01_SENSOR_DESCRIPTIONS) |->
        IF A01Include(runtime_data.a01[i], A01_SENSOR_DESCRIPTIONS[j])
        THEN << RoborockSensorEntityA01(runtime_data.a01[i], A01_SENSOR_DESCRIPTIONS[j]) >>
        ELSE << >>])])

B01SensorEntities ==
    Flatten([i \in 1..Len(runtime_data.b01) |->
      Flatten([j \in 1..Len(Q7_B01_SENSOR_DESCRIPTIONS) |->
        IF B01Include(runtime_data.b01[i], Q7_B01_SENSOR_DESCRIPTIONS[j])
        THEN << RoborockSensorEntityB01(runtime_data.b01[i], Q7_B01_SENSOR_DESCRIPTIONS[j]) >>
        ELSE << >>])])

\* A value function that raises during the V1 loop ends the setup with
\* that exception, before async_add_entities is reached.
SensorSetupRaises ==
    \E i \in 1..Len(runtime_data.v1), j \in 1..Len(SENSOR_DESCRIPTIONS) :
        Raised(V1ValueFn(SENSOR_DESCRIPTIONS[j], data[runtime_data.v1[i].duid_slug]))

SensorSetupEntry ==
    /\ Idle
    /\ sensorSetup = "pending"
    /\ IF SensorSetupRaises
       THEN /\ sensorSetup' = "failed"
            /\ UNCHANGED sensorEntities
       ELSE /\ sensorSetup' = "done"
            /\ sensorEntities' =
                 V1SensorEntities \o A01SensorEntities \o B01SensorEntities
    /\ UNCHANGED << runtime_data, data, vacuumSetup, vacuumEntities, call >>

(***************************************************************************)
(* vacuum.async_setup_entry                                                *)
(***************************************************************************)
VacuumSetupEntry ==
    /\ Idle
    /\ vacuumSetup = "pending"
    /\ vacuumSetup' = "done"
    /\ vacuumEntities' =
         [i \in 1..Len(runtime_data.b01) |-> RoborockVacuum(runtime_data.b01[i])]
    /\ UNCHANGED << runtime_data, data, sensorSetup, sensorEntities, call >>

(***************************************************************************)
(* The coordinator's periodic update replaces its cached data.             *)
(***************************************************************************)
CoordinatorUpdate ==
    /\ \E c \in AllCoordinators(runtime_data) :
         \E d \in SamplesOf(runtime_data, c) :
            /\ d # data[c.duid_slug]
            /\ data' = [data EXCEPT ![c.duid_slug] = d]
    /\ UNCHANGED << runtime_data, sensorSetup, sensorEntities,
                    vacuumSetup, vacuumEntities, call >>

(***************************************************************************)
(* State properties of the entities.                                       *)
(***************************************************************************)
VacuumActivity(name) == [activity |-> name]

\* The status lists of RoborockVacuum.activity, in the order they are tested.
CleaningStatuses ==
    << "cleaning", "sweep_moping", "sweep_moping_2", "moping", "sweeping" >>
DockedStatuses == << "docked", "charging", "mop_cleaning", "mop_airdrying" >>
ReturningStatuses == << "returning", "docking" >>

\* status_name in [...]: equality with some element of the list
InList(v, names) == \E i \in 1..Len(names) : v = StrV(names[i])

\* A slip in the status lists: mop_cleaning counted as cleaning.
ActivityMopCleaningIsCleaning(state) ==
    LET status_name == GetAttr(state, "status_name") IN
    IF InList(status_name, CleaningStatuses \o << "mop_cleaning" >>)
    THEN Ret(VacuumActivity("CLEANING"))
    ELSE IF InList(status_name, DockedStatuses) THEN Ret(VacuumActivity("DOCKED"))
    ELSE IF InList(status_name, ReturningStatuses) THEN Ret(VacuumActivity("RETURNING"))
    ELSE IF status_name = StrV("error") THEN Ret(VacuumActivity("ERROR"))
    ELSE IF status_name = StrV("paused") THEN Ret(VacuumActivity("PAUSED"))
    ELSE Ret(VacuumActivity("IDLE"))

\* RoborockVacuum.activity, on the coordinator's data
Activity(state) ==
    LET status_name == GetAttr(state, "status_name") IN
    IF InList(status_name, CleaningStatuses) THEN Ret(VacuumActivity("CLEANING"))
    ELSE IF InList(status_name, DockedStatuses) THEN Ret(VacuumActivity("DOCKED"))
    ELSE IF InList(status_name, ReturningStatuses) THEN Ret(VacuumActivity("RETURNING"))
    ELSE IF status_name = StrV("error") THEN Ret(VacuumActivity("ERROR"))
    ELSE IF status_name = StrV("paused") THEN Ret(VacuumActivity("PAUSED"))
    ELSE Ret(VacuumActivity("IDLE"))

\* A slip in fan_speed: the member's numeric code instead of its name.
FanSpeedReturnsCode(state) ==
    LET wind == GetAttr(state, "wind") IN
    IF wind = None THEN Ret(None)
    ELSE IF IsSCWind(wind) THEN Ret(IntV(wind.code))
    ELSE Ret(None)

\* A slip in fan_speed: a wind value that is already a string is passed on.
FanSpeedPassesStrings(state) ==
    LET wind == GetAttr(state, "wind") IN
    IF wind = None THEN Ret(None)
    ELSE IF IsSCWind(wind) THEN Ret(StrV(wind.name))
    ELSE IF "str" \in DOMAIN wind THEN Ret(wind)
    ELSE Ret(None)

\* RoborockVacuum.fan_speed, on the coordinator's data
FanSpeed(state) ==
    LET wind == GetAttr(state, "wind") IN
    IF wind = None THEN Ret(None)
    ELSE IF IsSCWind(wind) THEN Ret(StrV(wind.name))
    ELSE Ret(None)

\* RoborockVacuum.fan_speed_list
FanSpeedList == [i \in 1..Len(SCWindMapping) |-> SCWindMapping[i].name]

\* RoborockSensorEntity.native_value
V1NativeValue(entity, state) == V1ValueFn(entity.entity_description, state)

\* RoborockSensorEntityA01.native_value
A01NativeValue(entity, state) ==
    GetItem(state, entity.entity_description.data_protocol)

\* RoborockSensorEntityB01.native_value
B01NativeValue(entity, state) == B01ValueFn(entity.entity_description, state)

NativeValue(entity, state) ==
    CASE entity.cls = "RoborockSensorEntity" -> V1NativeValue(entity, state)
      [] entity.cls = "RoborockSensorEntityA01" -> A01NativeValue(entity, state)
      [] entity.cls = "RoborockSensorEntityB01" -> B01NativeValue(entity, state)

(***************************************************************************)
(* Entity operations.  `call` holds the operation invoked last: the        *)
(* entity, the argument, the calls made on external handles so far (log),  *)
(* what the device call produced (device) and how the operation ended     *)
(* (outcome).  Operations that await an external call take one step per    *)
(* await, so coordinator updates can interleave.                           *)
(***************************************************************************)
Pending == [kind |-> "pending"]

Call(op, self, arg, pc, log, device, outcome) ==
    [op |-> op, self |-> self, arg |-> arg, pc |-> pc, log |-> log,
     device |-> device, outcome |-> outcome]

StateOf(entity) == data[entity.coordinator.duid_slug]

\* A state-property read: no external call, the outcome is immediate.
ReadCall(op, self, outcome) == Call(op, self, None, "done", <<>>, Pending, outcome)

ReadActivity ==
    /\ Idle
    /\ \E e \in Range(vacuumEntities) :
         call' = ReadCall("activity", e, Activity(StateOf(e)))
    /\ UNCHANGED << runtime_data, data, sensorSetup, sensorEntities,
                    vacuumSetup, vacuumEntities >>

ReadFanSpeed ==
    /\ Idle
    /\ \E e \in Range(vacuumEntities) :
         call' = ReadCall("fan_speed", e, FanSpeed(StateOf(e)))
    /\ UNCHANGED << runtime_data, data, sensorSetup, sensorEntities,
                    vacuumSetup, vacuumEntities >>

\* A slip in native_value: a sensor whose value is None removes itself.
ReadNativeValueDropsNone ==
    /\ Idle
    /\ \E e \in Range(sensorEntities) :
         /\ call' = ReadCall("native_value", e, NativeValue(e, StateOf(e)))
         /\ sensorEntities' =
              IF NativeValue(e, StateOf(e)) = Ret(None)
              THEN SelectSeq(sensorEntities, LAMBDA x : x # e)
              ELSE sensorEntities
    /\ UNCHANGED << runtime_data, data, sensorSetup, vacuumSetup, vacuumEntities >>

ReadNativeValue ==
    /\ Idle
    /\ \E e \in Range(sensorEntities) :
         call' = ReadCall("native_value", e, NativeValue(e, StateOf(e)))
    /\ UNCHANGED << runtime_data, data, sensorSetup, sensorEntities,
                    vacuumSetup, vacuumEntities >>

\* What a call on the device handle can produce.
Responses == { Dict(<<>>), Dict("result" :> StrV("ok")) }
RoborockException == Raise("RoborockException")
\* Any other failure of the awaited call (a timeout, a cancellation).
OtherError == Raise("TimeoutError")
DeviceFailures == { RoborockException, OtherError }

\* The fan-speed names the host may pass: the listed ones and two others.
FanSpeedInputs == Range(FanSpeedList) \cup { "TURBO", "standard" }

\* A slip in async_set_fan_speed: the KeyError handler left out.
AsyncSetFanSpeedNoExcept(e, fan_speed) ==
    LET mode == SCWindByName(fan_speed) IN
    IF Raised(mode)
    THEN call' = Call("async_set_fan_speed", e, StrV(fan_speed), "done",
                      <<>>, Pending, mode)
    ELSE call' = Call("async_set_fan_speed", e, StrV(fan_speed), "await_device",
                      << [api |-> "set_fan_speed", mode |-> mode.value] >>,
                      Pending, Pending)

\* RoborockVacuum.async_set_fan_speed, up to its await
AsyncSetFanSpeed(e, fan_speed) ==
    LET mode == SCWindByName(fan_speed) IN
    IF Raised(mode)
    THEN \* except KeyError: log the error and return
         call' = Call("async_set_fan_speed", e, StrV(fan_speed), "done",
                      <<>>, Pending, Ret(None))
    ELSE call' = Call("async_set_fan_speed", e, StrV(fan_speed), "await_device",
                      << [api |-> "set_fan_speed", mode |-> mode.value] >>,
                      Pending, Pending)

SetFanSpeed ==
    /\ Idle
    /\ \E e \in Range(vacuumEntities) : \E n \in FanSpeedInputs :
         AsyncSetFanSpeed(e, n)
    /\ UNCHANGED << runtime_data, data, sensorSetup, sensorEntities,
                    vacuumSetup, vacuumEntities >>

\* async_start / async_pause / async_stop / async_return_to_base, up to the await
VacuumCommands ==
    [async_start |-> "start_clean", async_pause |-> "pause_clean",
     async_stop |-> "stop_clean", async_return_to_base |-> "return_to_dock"]

AsyncCommand(e, op) ==
    call' = Call(op, e, None, "await_device",
                 << [api |-> VacuumCommands[op]] >>, Pending, Pending)

VacuumCommand ==
    /\ Idle
    /\ \E e \in Range(vacuumEntities) : \E op \in DOMAIN VacuumCommands :
         AsyncCommand(e, op)
    /\ UNCHANGED << runtime_data, data, sensorSetup, sensorEntities,
                    vacuumSetup, vacuumEntities >>

\* The vacuum methods have no handler around the await: whatever the device
\* call produces is what the method produces (they return None on success).
VacuumAwaitResult(device) == IF Raised(device) THEN device ELSE Ret(None)

\* A slip in the vacuum commands: a failed command marks the entity unavailable.
VacuumDeviceReplyMarksUnavailable ==
    /\ call.pc = "await_device"
    /\ call.op # "send"
    /\ \E device \in { Ret(None) } \cup DeviceFailures :
         /\ call' = [call EXCEPT !.pc = "done", !.device = device,
                                 !.outcome = VacuumAwaitResult(device)]
         /\ vacuumEntities' =
              [i \in 1..Len(vacuumEntities) |->
                 IF Raised(device) /\ vacuumEntities[i] = call.self
                 THEN [vacuumEntities[i] EXCEPT !.available = FALSE]
                 ELSE vacuumEntities[i]]
    /\ UNCHANGED << runtime_data, data, sensorSetup, sensorEntities, vacuumSetup >>

VacuumDeviceReply ==
    /\ call.pc = "await_device"
    /\ call.op # "send"
    /\ \E device \in { Ret(None) } \cup DeviceFailures :
         call' = [call EXCEPT !.pc = "done", !.device = device,
                              !.outcome = VacuumAwaitResult(device)]
    /\ UNCHANGED << runtime_data, data, sensorSetup, sensorEntities,
                    vacuumSetup, vacuumEntities >>

(***************************************************************************)
(* RoborockEntityV1.send and RoborockCoordinatedEntityV1.send              *)
(***************************************************************************)
CommandV(name, value) == [command |-> name, value |-> value]
IsRoborockCommand(c) == "command" \in DOMAIN c

\* The commands the host may pass: an enum member or a plain string.
CommandInputs == { CommandV("APP_START", "app_start"), StrV("get_status") }

\* The name reported for a failed command.
CommandName(command) ==
    IF IsRoborockCommand(command) THEN command.command ELSE command.str

HomeAssistantError(command_name) ==
    [kind |-> "raise", exc |-> "HomeAssistantError",
     translation_key |-> "command_failed", command |-> command_name]

\* RoborockEntityV1.send on what self._api.send produced
EntityV1Send(command, device) ==
    IF device = RoborockException
    THEN HomeAssistantError(CommandName(command))
    ELSE device

\* send(command): the call enters self._api.send and awaits it.
SendInvoke ==
    /\ Idle
    /\ \E e \in Range(sensorEntities) : \E c \in CommandInputs :
         /\ e.cls = "RoborockSensorEntity"
         /\ call' = Call("send", e, c, "await_device",
                         << [api |-> "send", command |-> c, params |-> None] >>,
                         Pending, Pending)
    /\ UNCHANGED << runtime_data, data, sensorSetup, sensorEntities,
                    vacuumSetup, vacuumEntities >>

\* A slip in the coordinated send: the refresh is requested whether or not
\* the command succeeded.
CoordinatedSendAlwaysRefreshes(res) ==
    [call EXCEPT !.pc = "await_refresh",
                 !.log = Append(call.log, [api |-> "async_refresh"])]

\* RoborockCoordinatedEntityV1.send after super().send: an exception leaves
\* the method, a response is kept and the coordinator refresh is awaited.
CoordinatedSendAfterSuper(res) ==
    IF Raised(res)
    THEN [call EXCEPT !.pc = "done", !.outcome = res]
    ELSE [call EXCEPT !.pc = "await_refresh",
                      !.log = Append(call.log, [api |-> "async_refresh"])]

SendDeviceReply ==
    /\ call.pc = "await_device"
    /\ call.op = "send"
    /\ \E device \in { Ret(r) : r \in Responses } \cup DeviceFailures :
         call' = [CoordinatedSendAfterSuper(EntityV1Send(call.arg, device))
                    EXCEPT !.device = device]
    /\ UNCHANGED << runtime_data, data, sensorSetup, sensorEntities,
                    vacuumSetup, vacuumEntities >>

\* The value send returns once the refresh has completed.
CoordinatedSendReturn(c) == c.device

\* coordinator.async_refresh() completes: the coordinator holds fresh data
\* (possibly the same), then send returns the response.
SendRefreshDone ==
    /\ call.pc = "await_refresh"
    /\ \E d \in SamplesOf(runtime_data, call.self.coordinator) :
         data' = [data EXCEPT ![call.self.coordinator.duid_slug] = d]
    /\ call' = [call EXCEPT !.pc = "done", !.outcome = CoordinatedSendReturn(call)]
    /\ UNCHANGED << runtime_data, sensorSetup, sensorEntities,
                    vacuumSetup, vacuumEntities >>

Next ==
    \/ SensorSetupEntry
    \/ VacuumSetupEntry
    \/ CoordinatorUpdate
    \/ ReadActivity
    \/ ReadFanSpeed
    \/ ReadNativeValue
    \/ SetFanSpeed
    \/ VacuumCommand
    \/ VacuumDeviceReply
    \/ SendInvoke
    \/ SendDeviceReply
    \/ SendRefreshDone

Spec == Init /\ [][Next]_vars

(***************************************************************************)
(* Properties.                                                             *)
(***************************************************************************)
SetupsDone == sensorSetup = "done" /\ vacuumSetup = "done"
Done(op) == call.op = op /\ call.pc = "done"
\* The step that invokes op (a read completes in the same step).
Invokes(op) == call' # call /\ call'.op = op /\ call.pc = "done"

\* C1: whenever the device call of an entity operation raised the library
\* exception, the operation ends by raising the host-platform error whose
\* 'command' placeholder names the failed command; the library exception is
\* never what the caller sees.
C1_LibraryErrorIsWrapped ==
    (call.pc = "done" /\ call.device = RoborockException)
        => /\ call.outcome.kind = "raise"
           /\ call.outcome.exc = "HomeAssistantError"
           /\ call.outcome.command =
                (IF call.op = "send"
                 THEN (IF IsRoborockCommand(call.arg) THEN call.arg.command
                       ELSE call.arg.str)
                 ELSE call.log[1].api)

\* The activity documented for a status_name value.
DocumentedActivity(status_name) ==
    CASE status_name \in { StrV("cleaning"), StrV("sweep_moping"),
                           StrV("sweep_moping_2"), StrV("moping"),
                           StrV("sweeping") } -> "CLEANING"
      [] status_name \in { StrV("docked"), StrV("charging"),
                           StrV("mop_cleaning"), StrV("mop_airdrying") } -> "DOCKED"
      [] status_name \in { StrV("returning"), StrV("docking") } -> "RETURNING"
      [] status_name = StrV("error") -> "ERROR"
      [] status_name = StrV("paused") -> "PAUSED"
      [] OTHER -> "IDLE"

ActivityGroups ==
    << Range(CleaningStatuses), Range(DockedStatuses), Range(ReturningStatuses),
       { "error" }, { "paused" } >>

ActivityGroupsDisjoint ==
    \A i, j \in 1..Len(ActivityGroups) :
        i # j => ActivityGroups[i] \cap ActivityGroups[j] = {}

\* C2: every read of activity returns the activity documented for the
\* status_name of the coordinator's data (IDLE for every other value and for
\* an absent or None status_name), and the tested groups are pairwise disjoint.
C2_ActivityOfStatusName ==
    [][Invokes("activity") =>
         /\ call'.outcome =
              Ret(VacuumActivity(DocumentedActivity(
                    GetAttr(data[call'.self.coordinator.duid_slug], "status_name"))))
         /\ ActivityGroupsDisjoint]_vars

C2_Witness ==
    /\ Done("activity")
    /\ call.outcome = Ret(VacuumActivity("RETURNING"))
    /\ GetAttr(StateOf(call.self), "status_name") = StrV("docking")

\* Is an entity for (coordinator, description) in the list?
HasEntityFor(entities, coordinator, description) ==
    \E i \in 1..Len(entities) :
        /\ entities[i].coordinator = coordinator
        /\ entities[i].entity_description = description

\* The value a description extracts from a coordinator's data is a value
\* other than None.
V1NonNone(c, d) ==
    LET o == V1ValueFn(d, data[c.duid_slug]) IN ~Raised(o) /\ o.value # None
A01NonNone(c, d) ==
    LET o == GetItem(data[c.duid_slug], d.data_protocol) IN ~Raised(o) /\ o.value # None
B01NonNone(c, d) ==
    LET o == B01ValueFn(d, data[c.duid_slug]) IN ~Raised(o) /\ o.value # None

SensorSetupCompletes == sensorSetup = "pending" /\ sensorSetup' = "done"

\* C3 as stated: in the list only if the extracted value is non-None at setup
\* time (all generations), and in the list whenever it is (V1 and B01).
C3_CreatedOnlyIfValueNonNone ==
    [][SensorSetupCompletes =>
         /\ \A c \in Range(runtime_data.v1) : \A d \in Range(SENSOR_DESCRIPTIONS) :
              HasEntityFor(sensorEntities', c, d) <=> V1NonNone(c, d)
         /\ \A c \in Range(runtime_data.a01) : \A d \in Range(A01_SENSOR_DESCRIPTIONS) :
              HasEntityFor(sensorEntities', c, d) => A01NonNone(c, d)
         /\ \A c \in Range(runtime_data.b01) : \A d \in Range(Q7_B01_SENSOR_DESCRIPTIONS) :
              HasEntityFor(sensorEntities', c, d) <=> B01NonNone(c, d)]_vars

\* C3 amended: for V1 and B01 the entity is in the list exactly when the
\* extracted value is non-None at setup time; for A01 it is in the list
\* exactly when the description's protocol is among the coordinator's
\* request_protocols, whatever the data holds for it.
C3_CreatedPerGenerationRule ==
    [][SensorSetupCompletes =>
         /\ \A c \in Range(runtime_data.v1) : \A d \in Range(SENSOR_DESCRIPTIONS) :
              HasEntityFor(sensorEntities', c, d) <=> V1NonNone(c, d)
         /\ \A c \in Range(runtime_data.a01) : \A d \in Range(A01_SENSOR_DESCRIPTIONS) :
              HasEntityFor(sensorEntities', c, d)
                <=> (\E k \in 1..Len(c.request_protocols) :
                        c.request_protocols[k] = d.data_protocol)
         /\ \A c \in Range(runtime_data.b01) : \A d \in Range(Q7_B01_SENSOR_DESCRIPTIONS) :
              HasEntityFor(sensorEntities', c, d) <=> B01NonNone(c, d)]_vars

\* A setup that created some B01 sensors and skipped others, and an A01
\* sensor whose protocol has no value in the data.
C3_Witness ==
    /\ sensorSetup = "done"
    /\ \E c \in Range(runtime_data.b01) :
         /\ \E d \in Range(Q7_B01_SENSOR_DESCRIPTIONS) :
              HasEntityFor(sensorEntities, c, d) /\ B01NonNone(c, d)
         /\ \E d \in Range(Q7_B01_SENSOR_DESCRIPTIONS) :
              ~HasEntityFor(sensorEntities, c, d) /\ ~B01NonNone(c, d)
    /\ \E c \in Range(runtime_data.a01) : \E d \in Range(A01_SENSOR_DESCRIPTIONS) :
         HasEntityFor(sensorEntities, c, d) /\ ~A01NonNone(c, d)

\* The member of SCWindMapping with a given name.
WindNamed(n) == CHOOSE m \in SCWindMembers : m.name = n

\* C4: (a) setting a listed fan-speed name sends exactly one set_fan_speed
\* command, whose mode has that name; (b) whenever a vacuum's data holds a
\* member m of SCWindMapping as wind, fan_speed is m's name and looking that
\* name up in SCWindMapping gives m; (c) so once the data holds the mode that
\* was sent, fan_speed is the name that was set.
C4_FanSpeedRoundTrip ==
    /\ (call.op = "async_set_fan_speed" /\ call.arg.str \in Range(FanSpeedList))
         => /\ Len(call.log) = 1
            /\ call.log[1].api = "set_fan_speed"
            /\ call.log[1].mode \in SCWindMembers
            /\ call.log[1].mode.name = call.arg.str
            /\ (GetAttr(StateOf(call.self), "wind") = call.log[1].mode
                  => FanSpeed(StateOf(call.self)) = Ret(call.arg))
    /\ \A i \in 1..Len(vacuumEntities) :
         LET wind == GetAttr(StateOf(vacuumEntities[i]), "wind")
             fs == FanSpeed(StateOf(vacuumEntities[i]))
         IN  wind \in SCWindMembers
               => /\ fs = Ret(StrV(wind.name))
                  /\ fs.value.str \in Range(FanSpeedList)
                  /\ WindNamed(fs.value.str) = wind

\* A listed name was set and the device now reports the mode that was sent.
C4_Witness ==
    /\ Done("async_set_fan_speed")
    /\ call.arg = StrV("STRONG")
    /\ Len(call.log) = 1
    /\ GetAttr(StateOf(call.self), "wind") = call.log[1].mode
    /\ call.device = Ret(None)

AllEntities == sensorEntities \o vacuumEntities

\* C5: after both setups, no two entities are for the same (device,
\* description) pair, and no two entities have the same unique id.
C5_UniqueIds ==
    SetupsDone =>
        \A i, j \in 1..Len(AllEntities) :
            i # j => /\ AllEntities[i].unique_id # AllEntities[j].unique_id
                     /\ ~( /\ AllEntities[i].coordinator = AllEntities[j].coordinator
                           /\ AllEntities[i].cls = AllEntities[j].cls
                           /\ AllEntities[i].cls # "RoborockVacuum"
                           /\ AllEntities[i].entity_description
                                = AllEntities[j].entity_description )

StateReads == { "activity", "fan_speed", "native_value" }

\* C6: a read of a state property (activity, fan_speed, native_value of any
\* sensor) never raises, whatever the coordinator's data is; it returns None,
\* a value, or an activity.
C6_StateReadsNeverRaise ==
    (call.op \in StateReads /\ call.pc = "done") => ~Raised(call.outcome)

EntitiesUnchanged ==
    /\ sensorEntities' = sensorEntities
    /\ vacuumEntities' = vacuumEntities
    /\ runtime_data' = runtime_data

\* A step of an entity operation (an invocation, or the completion of one of
\* its awaits): exactly the steps that change `call`.
OperationStep == call' # call

\* C7 as stated: no step of an entity operation changes the entities' fields
\* or any coordinator's cached data.
C7_OperationsChangeNoState ==
    [][OperationStep => (EntitiesUnchanged /\ data' = data)]_vars

\* C7 amended: no step of an entity operation changes the entities' fields;
\* the only step that changes coordinator data is the completion of the
\* refresh the coordinated V1 send awaits after a successful command, and it
\* changes the data of that entity's coordinator only.
C7_OnlySendRefreshChangesData ==
    [][OperationStep =>
         /\ EntitiesUnchanged
         /\ (data' # data =>
               /\ call.op = "send"
               /\ call.pc = "await_refresh"
               /\ ~Raised(call.device)
               /\ \A sl \in DOMAIN data :
                    sl # call.self.coordinator.duid_slug => data'[sl] = data[sl])]_vars

\* A vacuum command that the device rejected has completed.
C7_Witness ==
    /\ Done("async_return_to_base")
    /\ call.device = RoborockException
    /\ call.self \in Range(vacuumEntities)

\* C8: the entity lists change only in the one step in which their setup
\* completes, each setup completes at most once, and a B01 sensor created at
\* setup reports the value its description extracts from the coordinator's
\* current data (None once the value has disappeared).
C8_EntitiesFixedBySetup ==
    [][/\ (sensorEntities' # sensorEntities => SensorSetupCompletes)
       /\ (sensorSetup' # sensorSetup => sensorSetup = "pending")
       /\ (vacuumEntities' # vacuumEntities
             => (vacuumSetup = "pending" /\ vacuumSetup' = "done"))
       /\ (vacuumSetup' # vacuumSetup => vacuumSetup = "pending")
       /\ ((Invokes("native_value") /\ call'.self.cls = "RoborockSensorEntityB01")
             => /\ call'.self \in Range(sensorEntities')
                /\ call'.outcome =
                     Ret(GetAttr(data'[call'.self.coordinator.duid_slug],
                                 call'.self.entity_description.attr)))]_vars

\* After setup the data changed: a sensor that was not created now has a
\* value, and a sensor that was created has just reported None.
C8_Witness ==
    /\ sensorSetup = "done"
    /\ Done("native_value")
    /\ call.self.cls = "RoborockSensorEntityB01"
    /\ call.outcome = Ret(None)
    /\ call.self \in Range(sensorEntities)
    /\ \E d \in Range(Q7_B01_SENSOR_DESCRIPTIONS) :
         /\ ~HasEntityFor(sensorEntities, call.self.coordinator, d)
         /\ B01NonNone(call.self.coordinator, d)

WindNames == { m.name : m \in SCWindMembers }

\* C9: async_set_fan_speed with a name that is no member of SCWindMapping
\* ends at once, having called nothing and returning None; with a member's
\* name its whole log is one set_fan_speed call carrying that member; in
\* both cases the step changes neither the entities nor the data.
C9_SetFanSpeedByName ==
    /\ [](call.op = "async_set_fan_speed" =>
            IF call.arg.str \notin WindNames
            THEN /\ call.pc = "done"
                 /\ call.log = << >>
                 /\ call.outcome = Ret(None)
            ELSE call.log = << [api |-> "set_fan_speed",
                                mode |-> WindNamed(call.arg.str)] >>)
    /\ [][(call' # call /\ call'.op = "async_set_fan_speed")
            => (EntitiesUnchanged /\ data' = data)]_vars

C9_Witness ==
    /\ Done("async_set_fan_speed")
    /\ call.arg = StrV("TURBO")
    /\ call.log = << >>
    /\ call.outcome = Ret(None)

RefreshCalls(log) == { i \in 1..Len(log) : log[i].api = "async_refresh" }

\* C10: in the coordinated V1 send the refresh is never requested before the
\* command has completed; after a successful command it is requested exactly
\* once, as the call after the command, and send returns the command's
\* response once the refresh is done; after a failed command no refresh is
\* requested and send raises.
C10_SendThenRefresh ==
    call.op = "send" =>
        /\ call.log[1] = [api |-> "send", command |-> call.arg, params |-> None]
        /\ (call.pc = "await_device"
              => /\ Len(call.log) = 1
                 /\ call.device = Pending
                 /\ call.outcome = Pending)
        /\ (call.pc = "await_refresh"
              => /\ call.device \in { Ret(r) : r \in Responses }
                 /\ Len(call.log) = 2
                 /\ RefreshCalls(call.log) = { 2 }
                 /\ call.outcome = Pending)
        /\ (call.pc = "done"
              => IF call.device \in { Ret(r) : r \in Responses }
                 THEN /\ Len(call.log) = 2
                      /\ RefreshCalls(call.log) = { 2 }
                      /\ call.outcome = call.device
                 ELSE /\ call.device \in DeviceFailures
                      /\ Len(call.log) = 1
                      /\ RefreshCalls(call.log) = {}
                      /\ Raised(call.outcome)
                      /\ (call.device = RoborockException
                            => call.outcome.exc = "HomeAssistantError")
                      /\ (call.device # RoborockException
                            => call.outcome = call.device))

C10_Witness ==
    /\ Done("send")
    /\ call.outcome = Ret(Dict("result" :> StrV("ok")))
    /\ Len(call.log) = 2
    /\ call.log[2] = [api |-> "async_refresh"]

\* The wind value of a coordinator's data: None when the data is None, has
\* no wind attribute, or holds None for it.
WindOf(state) ==
    IF ~IsObj(state) THEN None
    ELSE IF "wind" \notin DOMAIN state.obj THEN None
    ELSE state.obj["wind"]

ListedFanSpeeds == { StrV(FanSpeedList[i]) : i \in 1..Len(FanSpeedList) }

\* C11: every read of fan_speed returns None or a name of fan_speed_list: the
\* name of the data's wind value when that value is a member of
\* SCWindMapping, and None exactly when there is no wind value or the wind
\* value is no member.
C11_FanSpeedNoneOrListed ==
    [][Invokes("fan_speed") =>
         LET wind == WindOf(data[call'.self.coordinator.duid_slug]) IN
         /\ call'.outcome \in { Ret(None) } \cup { Ret(n) : n \in ListedFanSpeeds }
         /\ (call'.outcome = Ret(None) <=> (wind = None \/ wind \notin SCWindMembers))
         /\ (wind \in SCWindMembers => call'.outcome = Ret(StrV(wind.name)))]_vars

\* fan_speed was read as None while the data holds a wind value that is no
\* member of SCWindMapping.
C11_Witness ==
    /\ Done("fan_speed")
    /\ call.outcome = Ret(None)
    /\ WindOf(StateOf(call.self)) = StrV("STANDARD")

\* data.status.<field>, for data that has a status object.
HasStatus(state) ==
    IsObj(state) /\ "status" \in DOMAIN state.obj /\ IsObj(state.obj["status"])
StatusField(state, field) == state.obj["status"].obj[field]

\* The device has a dock and reports a dock error status.
DockReportsStatus(state) ==
    /\ StatusField(state, "dock_error_status") # None
    /\ StatusField(state, "dock_type") # IntV(0)

DockErrorDescription ==
    CHOOSE d \in Range(SENSOR_DESCRIPTIONS) : d.key = "dock_error"

\* C12: (a) on data with a status object, a read of the V1 dock_error sensor
\* returns the name of dock_error_status when dock_error_status is not None
\* and dock_type is not 0, and None otherwise (never None in the first case);
\* (b) when the sensor setup completes, a V1 device has a dock_error sensor
\* exactly when its data at that time has a non-None dock_error_status and a
\* dock_type other than 0; (c) every dock_error sensor carries the dock's
\* device info, every battery and cleaning_time sensor the vacuum's, and the
\* two differ.
C12_DockErrorValueAndDevice ==
    [][/\ ( ( /\ Invokes("native_value")
              /\ call'.self.cls = "RoborockSensorEntity"
              /\ call'.self.entity_description.key = "dock_error"
              /\ HasStatus(data[call'.self.coordinator.duid_slug]) )
            => LET state == data[call'.self.coordinator.duid_slug]
                   des == StatusField(state, "dock_error_status")
               IN  IF DockReportsStatus(state)
                   THEN /\ call'.outcome # Ret(None)
                        /\ (IsEnum(des) => call'.outcome = Ret(StrV(des.name)))
                   ELSE call'.outcome = Ret(None) )
       /\ ( SensorSetupCompletes
            => /\ \A c \in Range(runtime_data.v1) :
                    HasEntityFor(sensorEntities', c, DockErrorDescription)
                      <=> DockReportsStatus(data[c.duid_slug])
               /\ \A i \in 1..Len(sensorEntities') :
                    LET e == sensorEntities'[i] IN
                    e.cls = "RoborockSensorEntity"
                      => /\ DockDeviceInfo(e.coordinator) # DeviceInfo(e.coordinator)
                         /\ e.device_info =
                              IF e.entity_description.key = "dock_error"
                              THEN DockDeviceInfo(e.coordinator)
                              ELSE DeviceInfo(e.coordinator) )]_vars

\* A dock_error sensor created at setup, attached to the dock, next to a
\* battery sensor attached to the vacuum; the device now reports an error
\* status with dock type 0 and the sensor has just read None.
C12_Witness ==
    /\ sensorSetup = "done"
    /\ Done("native_value")
    /\ call.self.cls = "RoborockSensorEntity"
    /\ call.self.entity_description.key = "dock_error"
    /\ call.self.device_info = DockDeviceInfo(call.self.coordinator)
    /\ call.self \in Range(sensorEntities)
    /\ call.outcome = Ret(None)
    /\ HasStatus(StateOf(call.self))
    /\ StatusField(StateOf(call.self), "dock_error_status") = DockErrorFull
    /\ StatusField(StateOf(call.self), "dock_type") = IntV(0)
    /\ \E i \in 1..Len(sensorEntities) :
         /\ sensorEntities[i].cls = "RoborockSensorEntity"
         /\ sensorEntities[i].entity_description.key = "battery"
         /\ sensorEntities[i].device_info = DeviceInfo(call.self.coordinator)

====
